---- MODULE Spec2Model ----
(***************************************************************************)
(* Ed448 private key (src/src/private_key.rs): import, export, expansion   *)
(* and deterministic signing, with the verification of section 4.4 of the  *)
(* specification on the other side.                                        *)
(*                                                                         *)
(* Bytes are the integers 0..255 and byte strings are sequences of them.   *)
(* A BigInt is its magnitude: the little-endian base-256 digits with no    *)
(* high zero digit, so zero is the empty sequence and every width of the   *)
(* program (57-byte keys, 64- and 114-byte digests, the 446-bit order L)   *)
(* is kept in full.                                                        *)
(***************************************************************************)
EXTENDS Integers, Sequences, FiniteSets, TLC

VARIABLES rnd, key, pc, call, ret, verdict, first

vars == <<rnd, key, pc, call, ret, verdict, first>>

KEY_LENGTH == 57
SIG_LENGTH == 114

(***************************************************************************)
(* Option<T>: None is the empty sequence, Some(x) the one-element one.     *)
(***************************************************************************)
None == <<>>
Some(x) == <<x>>
unwrap_or(opt, default) == IF opt = None THEN default ELSE opt[1]

Zeros(n) == SubSeq([i \in 1..n |-> 0], 1, n)

(***************************************************************************)
(* num_bigint::BigInt, non-negative values only.                           *)
(***************************************************************************)
RECURSIVE Norm(_)
Norm(x) == IF x = <<>> THEN <<>>
           ELSE IF x[Len(x)] = 0 THEN Norm(SubSeq(x, 1, Len(x) - 1)) ELSE x

from_bytes_le(bytes) == Norm(bytes)

to_bytes_le(x) == IF x = <<>> THEN <<0>> ELSE x

RECURSIVE CmpFrom(_, _, _)
CmpFrom(x, y, i) == IF i = 0 THEN 0
                    ELSE IF x[i] > y[i] THEN 1
                    ELSE IF x[i] < y[i] THEN -1
                    ELSE CmpFrom(x, y, i - 1)

BigCmp(x, y) == IF Len(x) > Len(y) THEN 1
                ELSE IF Len(x) < Len(y) THEN -1
                ELSE CmpFrom(x, y, Len(x))

Digit(x, i) == IF i <= Len(x) THEN x[i] ELSE 0

\* digits lo..hi of x + y with carry c in: [d |-> the digits, c |-> carry out].
\* The range is halved so that the evaluation stays shallow.
RECURSIVE AddRange(_, _, _, _, _)
AddRange(x, y, lo, hi, c) ==
    IF lo > hi THEN [d |-> <<>>, c |-> c]
    ELSE IF lo = hi
    THEN LET t == Digit(x, lo) + Digit(y, lo) + c
         IN  [d |-> <<t % 256>>, c |-> t \div 256]
    ELSE LET mid  == (lo + hi) \div 2
             low  == AddRange(x, y, lo, mid, c)
             high == AddRange(x, y, mid + 1, hi, low.c)
         IN  [d |-> low.d \o high.d, c |-> high.c]

BigAdd(x, y) ==
    LET n == IF Len(x) > Len(y) THEN Len(x) ELSE Len(y)
        s == AddRange(x, y, 1, n, 0)
    IN  IF s.c = 0 THEN s.d ELSE Append(s.d, s.c)

\* x - y for x >= y
RECURSIVE SubRange(_, _, _, _, _)
SubRange(x, y, lo, hi, b) ==
    IF lo > hi THEN [d |-> <<>>, c |-> b]
    ELSE IF lo = hi
    THEN LET t == x[lo] - Digit(y, lo) - b
         IN  IF t < 0 THEN [d |-> <<t + 256>>, c |-> 1] ELSE [d |-> <<t>>, c |-> 0]
    ELSE LET mid  == (lo + hi) \div 2
             low  == SubRange(x, y, lo, mid, b)
             high == SubRange(x, y, mid + 1, hi, low.c)
         IN  [d |-> low.d \o high.d, c |-> high.c]

BigSub(x, y) == Norm(SubRange(x, y, 1, Len(x), 0).d)

RECURSIVE MulSmallRange(_, _, _, _, _)
MulSmallRange(x, k, lo, hi, c) ==
    IF lo > hi THEN [d |-> <<>>, c |-> c]
    ELSE IF lo = hi
    THEN LET t == x[lo] * k + c
         IN  [d |-> <<t % 256>>, c |-> t \div 256]
    ELSE LET mid  == (lo + hi) \div 2
             low  == MulSmallRange(x, k, lo, mid, c)
             high == MulSmallRange(x, k, mid + 1, hi, low.c)
         IN  [d |-> low.d \o high.d, c |-> high.c]

\* x * k for a single digit k
MulSmall(x, k) ==
    IF k = 0 \/ x = <<>> THEN <<>>
    ELSE LET s == MulSmallRange(x, k, 1, Len(x), 0)
         IN  IF s.c = 0 THEN s.d ELSE Append(s.d, s.c)

\* x * 256^n
Shift(x, n) == IF x = <<>> THEN <<>> ELSE Zeros(n) \o x

RECURSIVE MulRange(_, _, _, _)
MulRange(x, y, lo, hi) ==
    IF lo = hi THEN MulSmall(x, y[lo])
    ELSE LET mid == (lo + hi) \div 2
         IN  BigAdd(MulRange(x, y, lo, mid),
                    Shift(MulRange(x, y, mid + 1, hi), mid + 1 - lo))

BigMul(x, y) == IF x = <<>> \/ y = <<>> THEN <<>> ELSE MulRange(x, y, 1, Len(y))

\* Long division, one base-256 digit at a time: tbl[j] = m * 2^(j-1), and
\* Reduce takes rem < 256 * m below m by subtracting m * 2^7, ..., m * 2^0.
RECURSIVE Reduce(_, _, _)
Reduce(rem, tbl, j) ==
    IF j = 0 THEN rem
    ELSE IF BigCmp(rem, tbl[j]) >= 0
    THEN Reduce(BigSub(rem, tbl[j]), tbl, j - 1)
    ELSE Reduce(rem, tbl, j - 1)

\* The remainder of the digits lo..Len(x) of x, given that of the digits above
\* hi. The test on high has it evaluated before the lower half is entered.
RECURSIVE ModRange(_, _, _, _, _)
ModRange(x, tbl, lo, hi, rem) ==
    IF lo = hi THEN Reduce(Norm(<<x[lo]>> \o rem), tbl, 8)
    ELSE LET mid  == (lo + hi) \div 2
             high == ModRange(x, tbl, mid + 1, hi, rem)
         IN  IF BigCmp(high, tbl[1]) < 0 THEN ModRange(x, tbl, lo, mid, high) ELSE high

\* x % m
BigMod(x, m) ==
    IF x = <<>> THEN <<>>
    ELSE ModRange(x, <<m, MulSmall(m, 2), MulSmall(m, 4), MulSmall(m, 8), MulSmall(m, 16),
                       MulSmall(m, 32), MulSmall(m, 64), MulSmall(m, 128)>>,
                  1, Len(x), <<>>)

\* Vec::resize_with(n, Default::default): truncates or pads with zero bytes
resize_with(v, n) == IF Len(v) >= n THEN SubSeq(v, 1, n) ELSE v \o Zeros(n - Len(v))

\* crate::array_to_key: the slice copied into a [u8; KEY_LENGTH]
array_to_key(bytes) == SubSeq([i \in 1..KEY_LENGTH |-> bytes[i]], 1, KEY_LENGTH)

(***************************************************************************)
(* The extendable-output hash.  SHAKE256 is an external primitive: what    *)
(* the program relies on is a deterministic function of the absorbed bytes *)
(* squeezed to the requested length, a shorter output being a prefix of a  *)
(* longer one.  It is stood for by a small sponge with a 15-bit state:     *)
(* every byte b takes the state s to (131 * s + b + 1) mod 32749, and      *)
(* output byte i is drawn from the final state and i.  Unlike SHAKE256 its *)
(* collisions can be found (<<0, 131>> and <<1, 0>> collide).              *)
(***************************************************************************)
\* the map s |-> (a * s + b) % 32749 of absorbing bytes lo..hi of x
RECURSIVE Absorb(_, _, _)
Absorb(x, lo, hi) ==
    IF lo > hi THEN [a |-> 1, b |-> 0]
    ELSE IF lo = hi THEN [a |-> 131, b |-> x[lo] + 1]
    ELSE LET mid == (lo + hi) \div 2
             f   == Absorb(x, lo, mid)
             g   == Absorb(x, mid + 1, hi)
         IN  [a |-> (g.a * f.a) % 32749, b |-> (g.a * f.b + g.b) % 32749]

Squeeze(st, i) ==
    LET v == (st * (i + 1) + 977 * i + 12345) % 32749
    IN  ((v * v) \div 64) % 256

Shake256(input, n) ==
    LET f  == Absorb(input, 1, Len(input))
        st == (f.a * 4242 + f.b) % 32749
    IN  SubSeq([i \in 1..n |-> Squeeze(st, i)], 1, n)

RECURSIVE Concat(_)
Concat(items) == IF items = <<>> THEN <<>> ELSE Head(items) \o Concat(Tail(items))

\* crate::shake256: the dom4 framing, "SigEd448" || flag || len(ctx) || ctx,
\* then the fragments, squeezed to 64 bytes
shake256(items, ctx, pre_hash) ==
    Shake256(<<83, 105, 103, 69, 100, 52, 52, 56>>
                 \o <<IF pre_hash THEN 1 ELSE 0>> \o <<Len(ctx)>> \o ctx
                 \o Concat(items),
             64)

(***************************************************************************)
(* crate::point::Point.  The points the program handles are the multiples  *)
(* of the base point B, a cyclic group of prime order L; the point k*B is  *)
(* represented by k in 0..L-1, and encoded as the 57 little-endian bytes   *)
(* of k.                                                                   *)
(***************************************************************************)
\* 2^446 - 13818066809895115352007386748515426880336692474882178609894547503885
Point_l ==
    <<243, 68, 88, 171, 146, 194, 120, 35, 85, 143, 197, 141, 114, 194,
      108, 33, 144, 54, 214, 174, 73, 219, 78, 196, 233, 35, 202, 124,
      255, 255, 255, 255, 255, 255, 255, 255, 255, 255, 255, 255, 255, 255,
      255, 255, 255, 255, 255, 255, 255, 255, 255, 255, 255, 255, 255, 63>>

Point_default == <<1>>

Point_mul(p, k) == BigMod(BigMul(p, k), Point_l)

Point_add(p, q) == BigMod(BigAdd(p, q), Point_l)

Point_encode(p) == resize_with(to_bytes_le(p), KEY_LENGTH)

Point_decode(bytes) ==
    IF Len(bytes) = KEY_LENGTH /\ BigCmp(from_bytes_le(bytes), Point_l) < 0
    THEN [ok |-> TRUE, p |-> from_bytes_le(bytes)]
    ELSE [ok |-> FALSE, p |-> <<>>]

\* PublicKey::from(a: BigInt), as_byte(): the encoding of a * B
PublicKey_from(a) == Point_encode(Point_mul(Point_default, a))

\* RngCore::fill_bytes on the caller's generator in state n
fill_bytes(n) == SubSeq([i \in 1..KEY_LENGTH |-> (89 * (n + 1) + 53 * i + 17) % 256], 1, KEY_LENGTH)

(***************************************************************************)
(* u8 bit operations.                                                      *)
(***************************************************************************)
RECURSIVE BitAnd(_, _)
BitAnd(a, b) == IF a = 0 \/ b = 0 THEN 0
                ELSE (a % 2) * (b % 2) + 2 * BitAnd(a \div 2, b \div 2)

RECURSIVE BitOr(_, _)
BitOr(a, b) == IF a = 0 THEN b
               ELSE IF b = 0 THEN a
               ELSE (IF a % 2 = 1 \/ b % 2 = 1 THEN 1 ELSE 0) + 2 * BitOr(a \div 2, b \div 2)

(***************************************************************************)
(* PrivateKey(PrivateKeyRaw): self is the 57 bytes.                        *)
(***************************************************************************)
as_bytes(self) == self

\* prune with the mask of the 255-bit curve: the low three bits cleared
prune_three_bits(s) ==
    LET s1 == [s EXCEPT ![1] = BitAnd(@, 248)]
        s2 == [s1 EXCEPT ![57] = 0]
    IN  [s2 EXCEPT ![56] = BitOr(@, 128)]

\* The pruning of expand.  Rust indexes from 0, sequences from 1: s[0], s[56]
\* and s[55] are s[1], s[57] and s[56].
prune(s) ==
    LET s1 == [s EXCEPT ![1] = BitAnd(@, 252)]
        s2 == [s1 EXCEPT ![57] = 0]
    IN  [s2 EXCEPT ![56] = BitOr(@, 128)]

expand(self) ==
    LET h    == Shake256(as_bytes(self), 114)
        s    == prune(array_to_key(SubSeq(h, 1, KEY_LENGTH)))
        seed == array_to_key(SubSeq(h, KEY_LENGTH + 1, 114))
    IN  <<s, seed>>

NoTrace == [msg |-> <<>>, a |-> <<>>, nonce |-> <<>>, r |-> <<>>, R |-> <<>>,
            A |-> <<>>, challenge |-> <<>>, h |-> <<>>, S |-> <<>>]

Err(e) == [ok |-> FALSE, err |-> e, val |-> <<>>, trace |-> NoTrace]
Ok(v, t) == [ok |-> TRUE, err |-> "", val |-> v, trace |-> t]

\* default_ctx with a one-byte default
default_ctx_nul(ctx) == unwrap_or(ctx, <<0>>)

\* let ctx = ctx.unwrap_or(b"")
default_ctx(ctx) == unwrap_or(ctx, <<>>)

\* ctx_too_long off by one
ctx_too_long_at_255(ctx) == Len(ctx) >= 255

\* if ctx.len() > 255
ctx_too_long(ctx) == Len(ctx) > 255

\* prehash with the arms of the match swapped
prehash_swapped(msg, pre_hash) == IF pre_hash THEN msg ELSE Shake256(msg, 64)

\* let msg = match pre_hash { .. }
prehash(msg, pre_hash) == IF pre_hash THEN Shake256(msg, 64) ELSE msg

\* nonce_args with the nonce drawn from the generator instead of the seed
nonce_args_random(seed, msg, ctx, pre_hash) ==
    [items |-> <<fill_bytes(rnd), msg>>, ctx |-> ctx, pre_hash |-> pre_hash]

\* the arguments of the two calls of crate::shake256
nonce_args(seed, msg, ctx, pre_hash) ==
    [items |-> <<seed, msg>>, ctx |-> ctx, pre_hash |-> pre_hash]

challenge_args(R, A, msg, ctx, pre_hash) ==
    [items |-> <<R, A, msg>>, ctx |-> ctx, pre_hash |-> pre_hash]

\* BigInt::from_bytes_le(Sign::Plus, shake256(..).as_ref()) % Point::l()
hash_mod_l(args) ==
    BigMod(from_bytes_le(shake256(args.items, args.ctx, args.pre_hash)), Point_l)

\* scalar_S with the sum taken before the product
scalar_S_sum_first(r, h, a) == BigMod(BigMul(BigAdd(r, h), a), Point_l)

\* let S = (r + h * a) % Point::l()
scalar_S(r, h, a) == BigMod(BigAdd(r, BigMul(h, a)), Point_l)

\* encode_S from the big-endian bytes
encode_S_be(S) ==
    LET le == to_bytes_le(S)
    IN  array_to_key(resize_with(SubSeq([i \in 1..Len(le) |-> le[Len(le) + 1 - i]], 1, Len(le)),
                                 KEY_LENGTH))

\* S.magnitude().to_bytes_le(), resized to KEY_LENGTH, as an array
encode_S(S) == array_to_key(resize_with(to_bytes_le(S), KEY_LENGTH))

\* The result, and beside it the intermediate values of the call: the message
\* after the pre-hash step, the arguments of the two framed hashes, r, R, h, S.
sign_real(self, msg, ctx, pre_hash) ==
    LET ctx1 == default_ctx(ctx)
    IN  IF ctx_too_long(ctx1) THEN Err("ContextTooLong")
        ELSE
        LET msg1   == prehash(msg, pre_hash)
            e      == expand(self)
            seed   == e[2]
            a      == from_bytes_le(e[1])
            nonce  == nonce_args(seed, msg1, ctx1, pre_hash)
            r      == hash_mod_l(nonce)
            R      == Point_encode(Point_mul(Point_default, r))
            A      == PublicKey_from(a)
            chal   == challenge_args(R, A, msg1, ctx1, pre_hash)
            h      == hash_mod_l(chal)
            S      == scalar_S(r, h, a)
            result == R \o encode_S(S)
        IN  Ok(result, [msg |-> msg1, a |-> a, nonce |-> nonce, r |-> r, R |-> R,
                        A |-> A, challenge |-> chal, h |-> h, S |-> S])

sign(self, msg, ctx) == sign_real(self, msg, ctx, FALSE)

sign_ph(self, msg, ctx) == sign_real(self, msg, ctx, TRUE)

\* try_from rejecting only the slices that are too short
try_from_min_length(bytes) ==
    IF Len(bytes) < KEY_LENGTH THEN Err("WrongKeyLength")
    ELSE Ok(array_to_key(bytes), NoTrace)

try_from(bytes) ==
    IF Len(bytes) # KEY_LENGTH THEN Err("WrongKeyLength")
    ELSE Ok(array_to_key(bytes), NoTrace)

(***************************************************************************)
(* PublicKey::verify, section 4.4: lhs = S*B, rhs = R + h*A.               *)
(***************************************************************************)
Rejected == [ok |-> FALSE, lhs |-> <<>>, rhs |-> <<>>]

verify(pubkey, msg, sig, ctx) ==
    LET ctx1 == unwrap_or(ctx, <<>>)
    IN  IF Len(sig) # SIG_LENGTH \/ Len(ctx1) > 255 THEN Rejected
        ELSE
        LET R_enc == SubSeq(sig, 1, KEY_LENGTH)
            S     == from_bytes_le(SubSeq(sig, KEY_LENGTH + 1, SIG_LENGTH))
            R     == Point_decode(R_enc)
            A     == Point_decode(pubkey)
        IN  IF ~R.ok \/ ~A.ok \/ BigCmp(S, Point_l) >= 0 THEN Rejected
            ELSE
            LET h   == BigMod(from_bytes_le(shake256(<<R_enc, pubkey, msg>>, ctx1, FALSE)),
                              Point_l)
                lhs == Point_mul(Point_default, S)
                rhs == Point_add(R.p, Point_mul(A.p, h))
            IN  [ok |-> lhs = rhs, lhs |-> lhs, rhs |-> rhs]

(***************************************************************************)
(* The inputs.  K1 and Msg1 are the key and message of the first example   *)
(* of sign, Foo the context of the second.                                 *)
(***************************************************************************)
K1 == <<205, 35, 210, 79, 113, 66, 116, 231, 68, 52, 50, 55, 185,
        50, 144, 245, 17, 246, 66, 95, 152, 230, 68, 89, 255, 32, 62, 137, 133,
        8, 63, 253, 246, 5, 0, 85, 58, 188, 14, 5, 205, 2, 24, 75, 219,
        137, 196, 204, 214, 126, 24, 121, 81, 38, 126, 179, 40>>

Msg1 == <<12, 62, 84, 64, 116, 236, 99, 176, 38, 94, 12>>

\* two messages with the same digest
MsgA == <<0, 131>>
MsgB == <<1, 0>>

Foo == <<102, 111, 111>>

\* slices of 56, 57 and 58 bytes
Slices == {SubSeq(K1, 1, KEY_LENGTH - 1), K1, K1 \o <<0>>}

Msgs == {Msg1, MsgA, MsgB}

\* absent, empty, short, and the two lengths around the limit
Ctxs == {None, Some(<<>>), Some(Foo), Some(Zeros(255)), Some(Zeros(256))}

\* how many keys the caller's generator hands out
MaxRnd == 1

\* the signature with one bit flipped: bit b (0..7) of byte i (1..114)
FlipBit(sig, i, b) ==
    LET w == IF b = 0 THEN 1 ELSE IF b = 1 THEN 2 ELSE IF b = 2 THEN 4 ELSE IF b = 3 THEN 8
             ELSE IF b = 4 THEN 16 ELSE IF b = 5 THEN 32 ELSE IF b = 6 THEN 64 ELSE 128
    IN  [sig EXCEPT ![i] = IF (@ \div w) % 2 = 1 THEN @ - w ELSE @ + w]

(***************************************************************************)
(* The caller: idle, or holding the result of its last call (called), or   *)
(* having verified the signature it holds (verified).                      *)
(***************************************************************************)
NoCall == [op |-> "", self |-> <<>>, msg |-> <<>>, ctx |-> None]
NoRet == [ok |-> FALSE, err |-> "", val |-> <<>>, trace |-> NoTrace]
NoVerdict == [ctx |-> None, sig |-> <<>>, ok |-> FALSE, lhs |-> <<>>, rhs |-> <<>>]

Init ==
    /\ rnd = 0
    /\ key = None
    /\ pc = "idle"
    /\ call = NoCall
    /\ ret = NoRet
    /\ verdict = NoVerdict
    /\ first = None

\* PrivateKey::new(rnd)
New ==
    /\ pc = "idle"
    /\ rnd < MaxRnd
    /\ key' = Some(array_to_key(fill_bytes(rnd)))
    /\ rnd' = rnd + 1
    /\ UNCHANGED <<pc, call, ret, verdict, first>>

\* PrivateKey::try_from(bytes): the caller keeps the key on success
TryFrom(bytes) ==
    /\ pc = "idle"
    /\ pc' = "called"
    /\ call' = [op |-> "try_from", self |-> <<>>, msg |-> bytes, ctx |-> None]
    /\ ret' = try_from(bytes)
    /\ key' = IF ret'.ok THEN Some(ret'.val) ELSE key
    /\ UNCHANGED <<rnd, verdict, first>>

AsBytes ==
    /\ pc = "idle"
    /\ key # None
    /\ pc' = "called"
    /\ call' = [op |-> "as_bytes", self |-> key[1], msg |-> <<>>, ctx |-> None]
    /\ ret' = Ok(as_bytes(key[1]), NoTrace)
    /\ UNCHANGED <<rnd, key, verdict, first>>

Expand ==
    /\ pc = "idle"
    /\ key # None
    /\ pc' = "called"
    /\ call' = [op |-> "expand", self |-> key[1], msg |-> <<>>, ctx |-> None]
    /\ ret' = Ok(expand(key[1]), NoTrace)
    /\ UNCHANGED <<rnd, key, verdict, first>>

Sign(msg, ctx) ==
    /\ pc = "idle"
    /\ key # None
    /\ pc' = "called"
    /\ call' = [op |-> "sign", self |-> key[1], msg |-> msg, ctx |-> ctx]
    /\ ret' = sign(key[1], msg, ctx)
    /\ UNCHANGED <<rnd, key, verdict>>

SignPh(msg, ctx) ==
    /\ pc = "idle"
    /\ key # None
    /\ pc' = "called"
    /\ call' = [op |-> "sign_ph", self |-> key[1], msg |-> msg, ctx |-> ctx]
    /\ ret' = sign_ph(key[1], msg, ctx)
    /\ UNCHANGED <<rnd, key, verdict>>

\* the public key of the same private key verifies the signature just returned,
\* for the message signed, under context ctx, as returned or with a bit flipped
Verify(ctx, sig) ==
    /\ pc = "called"
    /\ call.op = "sign"
    /\ ret.ok
    /\ pc' = "verified"
    /\ verdict' = [ctx |-> ctx, sig |-> sig] @@
                  verify(PublicKey_from(from_bytes_le(expand(key[1])[1])), call.msg, sig, ctx)
    /\ UNCHANGED <<rnd, key, call, ret, first>>

Return ==
    /\ pc \in {"called", "verified"}
    /\ pc' = "idle"
    /\ call' = NoCall
    /\ ret' = NoRet
    /\ verdict' = NoVerdict
    /\ UNCHANGED <<rnd, key, first>>

Next ==
    \/ New
    \/ \E bytes \in Slices : TryFrom(bytes)
    \/ AsBytes
    \/ Expand
    \/ \E msg \in Msgs, ctx \in Ctxs : Sign(msg, ctx) /\ UNCHANGED first
    \/ \E msg \in Msgs, ctx \in Ctxs : SignPh(msg, ctx) /\ UNCHANGED first
    \/ \E ctx \in {call.ctx, Some(<<7>>)},
          sig \in {ret.val, FlipBit(ret.val, KEY_LENGTH + 1, 0)} : Verify(ctx, sig)
    \/ Return

Spec == Init /\ [][Next]_vars

(***************************************************************************)
(* The same caller remembering its first signing call, what it returned    *)
(* and the state of its generator at that call, over fewer inputs.         *)
(***************************************************************************)
HistCtxs == {None, Some(<<>>), Some(Foo)}

Remember ==
    first' = IF first = None THEN Some([call |-> call', ret |-> ret', rnd |-> rnd]) ELSE first

HistNext ==
    \/ New
    \/ TryFrom(K1)
    \/ AsBytes
    \/ Expand
    \/ \E ctx \in HistCtxs : Sign(Msg1, ctx) /\ Remember
    \/ \E ctx \in HistCtxs : SignPh(Msg1, ctx) /\ Remember
    \/ Return

HistSpec == Init /\ [][HistNext]_vars

(***************************************************************************)
(* Properties.                                                             *)
(***************************************************************************)
Signing == pc \in {"called", "verified"} /\ call.op \in {"sign", "sign_ph"}

Bit(b, j) == (b \div (2 ^ j)) % 2

TwoTo447 == Zeros(55) \o <<128>>
TwoTo448 == Zeros(56) \o <<1>>

\* C1: a signature returned by sign is accepted by verify of the public key of
\* the same private key for the same message and context: S*B, with S the
\* scalar sign computed, equals R + h*A with h recomputed by verify.
C1_RoundTrip ==
    (pc = "verified" /\ verdict.ctx = call.ctx /\ verdict.sig = ret.val)
        => /\ verdict.ok
           /\ verdict.lhs = Point_mul(Point_default, ret.trace.S)
           /\ verdict.rhs = verdict.lhs

C1_Witness ==
    /\ pc = "verified"
    /\ verdict.ctx = call.ctx
    /\ verdict.sig = ret.val
    /\ call.ctx = Some(Zeros(255))
    /\ call.msg = Msg1
    /\ verdict.ok

C3_ContextLength ==
    Signing =>
        /\ ret.ok <=> Len(unwrap_or(call.ctx, <<>>)) <= 255
        /\ ~ret.ok => ret.err = "ContextTooLong" /\ ret.val = <<>>
        /\ ret.ok => ret.err = "" /\ Len(ret.val) = SIG_LENGTH

C3_Witness ==
    /\ Signing
    /\ call.ctx # None
    /\ Len(call.ctx[1]) = 256
    /\ ~ret.ok
    /\ ret.err = "ContextTooLong"

C3_Accepted255 == Signing /\ call.ctx # None /\ Len(call.ctx[1]) = 255 /\ ret.ok

\* C4: try_from succeeds exactly on slices of KEY_LENGTH bytes, fails with
\* WrongKeyLength on the others, and on success as_bytes gives the slice back.
C4_KeyLength ==
    (pc = "called" /\ call.op = "try_from") =>
        /\ ret.ok <=> Len(call.msg) = 57
        /\ ~ret.ok => ret.err = "WrongKeyLength"
        /\ ret.ok => key # None /\ as_bytes(key[1]) = call.msg

C4_Witness ==
    /\ pc = "called"
    /\ call.op = "try_from"
    /\ Len(call.msg) = 58
    /\ ~ret.ok
    /\ ret.err = "WrongKeyLength"

C4_Imported == pc = "called" /\ call.op = "try_from" /\ ret.ok /\ key = Some(K1)

\* C5: a signature is 114 bytes, the encoding of R = r*B followed by the 57
\* little-endian bytes of S = (r + h*a) mod L, S < L, and the last 57 bytes
\* read back as a little-endian integer are S.
C5_Encoding ==
    (Signing /\ ret.ok) =>
        LET t == ret.trace
        IN  /\ Len(ret.val) = 114
            /\ SubSeq(ret.val, 1, 57) = Point_encode(Point_mul(Point_default, t.r))
            /\ BigCmp(t.r, Point_l) < 0
            /\ t.S = BigMod(BigAdd(t.r, BigMul(t.h, t.a)), Point_l)
            /\ BigCmp(t.S, Point_l) < 0
            /\ SubSeq(ret.val, 58, 114) = t.S \o Zeros(57 - Len(t.S))
            /\ from_bytes_le(SubSeq(ret.val, 58, 114)) = t.S

C5_Witness ==
    /\ Signing
    /\ ret.ok
    /\ call.ctx = Some(Foo)
    /\ Len(ret.trace.S) = 56
    /\ ret.val[114] = 0
    /\ from_bytes_le(SubSeq(ret.val, 58, 114)) = ret.trace.S

\* C8: with the same key and message, sign (and sign_ph) returns for an absent
\* context what it returns for an empty one.
C8_AbsentIsEmpty ==
    (/\ Signing
     /\ first # None
     /\ first[1].call.op = call.op
     /\ first[1].call.self = call.self
     /\ first[1].call.msg = call.msg
     /\ {first[1].call.ctx, call.ctx} = {None, Some(<<>>)})
        => ret.ok /\ first[1].ret.ok /\ ret.val = first[1].ret.val

C8_Witness ==
    /\ Signing
    /\ first # None
    /\ first[1].call.op = "sign_ph"
    /\ call.op = "sign_ph"
    /\ first[1].call.self = call.self
    /\ first[1].call.msg = call.msg
    /\ first[1].call.ctx = Some(<<>>)
    /\ call.ctx = None
    /\ ret.ok
    /\ ret.val = first[1].ret.val

\* the first half of the digest as C9 describes it after pruning
C9_Pruned(h) ==
    [i \in 1..57 |-> IF i = 1 THEN h[1] - (h[1] % 4)
                     ELSE IF i = 56 THEN (IF h[56] < 128 THEN h[56] + 128 ELSE h[56])
                     ELSE IF i = 57 THEN 0
                     ELSE h[i]]

\* C9: expand returns the first 57 bytes of the 114-byte digest of the key with
\* bits 0 and 1 of byte 0 cleared, bit 7 of byte 55 set, byte 56 zero and every
\* other bit unchanged, and the last 57 bytes unmodified; the scalar read from
\* it is a multiple of 4 in [2^447, 2^448); signing uses that scalar and seed
\* whatever the context and the pre-hash flag.
C9_Pruning ==
    /\ (pc = "called" /\ call.op = "expand") =>
          LET h    == Shake256(call.self, 114)
              s    == ret.val[1]
              seed == ret.val[2]
              a    == from_bytes_le(s)
          IN  /\ Len(s) = 57
              /\ \A i \in 1..57, j \in 0..7 :
                    Bit(s[i], j) = IF i = 1 /\ j \in {0, 1} THEN 0
                                   ELSE IF i = 56 /\ j = 7 THEN 1
                                   ELSE IF i = 57 THEN 0
                                   ELSE Bit(h[i], j)
              /\ seed = SubSeq(h, 58, 114)
              /\ a[1] % 4 = 0
              /\ BigCmp(a, TwoTo447) >= 0
              /\ BigCmp(a, TwoTo448) < 0
    /\ (Signing /\ ret.ok) =>
          LET h == Shake256(call.self, 114)
          IN  /\ ret.trace.a = from_bytes_le(C9_Pruned(h))
              /\ ret.trace.nonce.items[1] = SubSeq(h, 58, 114)

\* a key whose digest is changed by each of the three steps
C9_Witness ==
    /\ pc = "called"
    /\ call.op = "expand"
    /\ LET h == Shake256(call.self, 114)
       IN  /\ h[1] % 4 # 0
           /\ h[56] < 128
           /\ h[57] # 0
           /\ ret.val[1] = C9_Pruned(h)
           /\ ret.val[1] # SubSeq(h, 1, 57)

\* C10: sign_ph fails on a context longer than 255 bytes before anything else;
\* otherwise the message it signs is the 64-byte digest d of the message, used
\* with the flag set in the nonce hash (seed, d) and the challenge hash (R,
\* public key, d); messages with one digest get one signature; and sign of d
\* itself feeds the two hashes the same fragments with the flag clear.
C10_PreHash ==
    (pc = "called" /\ call.op = "sign_ph") =>
        LET ctx1 == unwrap_or(call.ctx, <<>>)
            d    == Shake256(call.msg, 64)
            t    == ret.trace
        IN  /\ Len(ctx1) > 255 => ~ret.ok /\ t = NoTrace
            /\ Len(ctx1) <= 255 =>
                 /\ ret.ok
                 /\ Len(d) = 64
                 /\ t.msg = d
                 /\ t.nonce = [items |-> <<expand(call.self)[2], d>>,
                               ctx |-> ctx1, pre_hash |-> TRUE]
                 /\ t.challenge = [items |-> <<SubSeq(ret.val, 1, 57), t.A, d>>,
                                   ctx |-> ctx1, pre_hash |-> TRUE]
                 /\ \A m2 \in Msgs \ {call.msg} :
                       Shake256(m2, 64) = d => sign_ph(call.self, m2, call.ctx) = ret
                 /\ LET u == sign(call.self, d, call.ctx).trace
                    IN  /\ u.msg = t.msg
                        /\ u.a = t.a
                        /\ u.A = t.A
                        /\ u.nonce = [t.nonce EXCEPT !.pre_hash = FALSE]
                        /\ u.challenge.items[2] = t.challenge.items[2]
                        /\ u.challenge.items[3] = t.challenge.items[3]
                        /\ u.challenge.ctx = t.challenge.ctx
                        /\ u.challenge.pre_hash = FALSE

C10_Witness ==
    /\ pc = "called"
    /\ call.op = "sign_ph"
    /\ call.msg = MsgA
    /\ call.ctx = Some(Foo)
    /\ ret.ok
    /\ Shake256(MsgB, 64) = ret.trace.msg
    /\ ret.trace.nonce.pre_hash
    /\ ret.trace.challenge.pre_hash
====
